---- MODULE Spec2Model ----
(***************************************************************************)
(* Phase orchestrator and section ledger of the report builder backend.    *)
(*                                                                         *)
(* One session is modelled.  The persisted state is the session row        *)
(* (guide_json, intake_json, state_json) and the section rows.  Every      *)
(* action is one request: session creation, one chat turn through          *)
(* process_chat_message (dispatch, phase handler, state save), or the      *)
(* save-section endpoint.  Collaborator calls (response generation,        *)
(* memory) return; what they return is an input of the action.             *)
(***************************************************************************)
EXTENDS Integers, Sequences, FiniteSets, TLC

VARIABLES
    guide_json,     \* session.guide_json: <<>> before the session exists, else <<guide>>
    intake_json,    \* session.intake_json: function from the stored field names to values
    state_json,     \* session.state_json: <<>> when nothing is stored, else <<state dict>>
    sections,       \* Section rows: function from <<chapter_idx, section_idx>> to status
    draft_html,     \* Section rows: function from the same keys to the draft_html column
    bullet_points,  \* memory entries of category bullet_points: section id to bullet list
    prev_question,  \* last assistant message of the intake conversation kept in memory
    response,       \* metadata of the response to the last chat request (for an intake
                    \* turn also whether its message text matches a completion pattern)
    last_request,   \* the last request: its kind, its message, the phase it loaded
    fn_call,        \* the last direct call of a parser or helper: its name and input
    fn_result,      \* what that call returned
    in_flight,      \* chat requests of the session accepted by the server and not yet
                    \* answered, and the coroutine that holds the event loop
    tables          \* the sessions and sections tables with the rows of two sessions,
                    \* and the session of the last request

vars == <<guide_json, intake_json, state_json, sections, draft_html, bullet_points,
          prev_question, response, last_request, fn_call, fn_result, in_flight, tables>>

----------------------------------------------------------------------------
(* Bounds and input sets                                                   *)

\* largest index the save-section endpoint is called with
MaxIdx == 1

\* a guide is the sequence of its chapters' section counts
Guides == { <<1>>, <<1, 2>>, <<2, 1, 3>> }

\* guides without a chapter, or with a chapter without a section
EmptyChapterGuides == { <<>>, <<0, 1>> }

\* the guides an uploaded JSON object can spell out
UploadedGuides == Guides \cup EmptyChapterGuides

\* uploaded files: no bytes, plain text, bytes that are not UTF-8, a PDF, a
\* DOCX, JSON that is not an object, and a JSON object (an object without a
\* "chapters" key reads as the guide without chapters)
GuideFiles ==
    { [ kind |-> k, guide |-> <<>> ] :
        k \in { "empty", "text", "non_utf8", "pdf", "docx", "json_value" } }
    \cup { [ kind |-> "json_object", guide |-> g ] : g \in UploadedGuides }

\* longest list of "title" entries in a generated response
MaxTitles == 2

\* values of the "title" entries a generated response can carry
TitleTokens == { "Chapter 1", "Chapter Two", "chapter 3", "Introduction" }

\* what is wrong with the JSON text of a generated response: nothing, one of
\* the errors the clean-up repairs, a text cut off in the middle, no JSON
JsonDefects ==
    { "none", "trailing_comma", "unquoted_key", "single_quotes", "truncated", "not_json" }

\* generated responses of the guide extraction call
AiResponses ==
    { [ defect |-> d, titles |-> t ] :
        d \in JsonDefects,
        t \in UNION { [ 1..n -> TitleTokens ] : n \in 0..MaxTitles } }

\* longest guide text, in stripped non-empty lines; the rule-based parser
\* treats the lines from the sixth on differently
MaxLines == 6

\* a content line of sixty characters or more
LongLine == "This line of the guide is longer than sixty characters in all, on purpose"

\* lines of a guide text: a chapter heading, a section heading, a subsection
\* heading, two short content lines and a long one
OutlineLines ==
    { "1. Introduction", "1.1 Background", "1.1.1 Details", "some content",
      "more content", LongLine }

\* guide texts
OutlineTexts == UNION { [ 1..n -> OutlineLines ] : n \in 0..MaxLines }

\* user messages: the control message (also padded / upper-cased), an empty
\* message and an ordinary one
ForceMsg == "force-complete-intake"
Messages == { ForceMsg, " Force-Complete-Intake ", "", "My Report" }

\* messages sent while planning: the same, and one with bullet lines
BulletMsg == "- scope\n2) method\nand data\nok"
PlanningMessages == Messages \cup { BulletMsg }

----------------------------------------------------------------------------
(* Phase and OrchestratorState                                             *)

INTAKE == "intake"
PLANNING == "planning"
EXECUTION == "execution"
REFLECTION == "reflection"
Phase == { INTAKE, PLANNING, EXECUTION, REFLECTION }

\* Python None for a section id; a section id is a sequence of characters
None == << "None" >>
Id00 == << "0", ".", "0" >>

SESSION == "s1"

\* OrchestratorState(session_id): phase defaults to intake, no section
OrchestratorState(session_id) ==
    [ session_id |-> session_id, phase |-> INTAKE, current_section_id |-> None ]

to_dict(state) ==
    [ session_id |-> state.session_id,
      phase |-> state.phase,
      current_section_id |-> state.current_section_id ]

from_dict(data) ==
    [ session_id |-> data.session_id,
      phase |-> data.phase,
      current_section_id |-> data.current_section_id ]

\* from_dict raises KeyError when one of the three keys is missing
from_dict_raises(data) ==
    ~({ "session_id", "phase", "current_section_id" } \subseteq DOMAIN data)

\* load_state_from_db: the stored dict, or nothing when the column is empty
\* or holds an empty dict
load_state_from_db ==
    IF state_json = <<>> THEN <<>>
    ELSE IF DOMAIN state_json[1] = {} THEN <<>>
    ELSE state_json

\* save_state_to_db: the column after the write
save_state_to_db(state_dict) == << state_dict >>

\* save_state_to_db when the commit raises, without the rollback: the
\* assignment to session.state_json stands
save_state_to_db_rollback_Skipped(stored, state_dict) == << state_dict >>

\* save_state_to_db when the commit raises: the rollback leaves the column as
\* it was and the function returns False
save_state_to_db_rollback(stored, state_dict) == stored

\* the column after the save at the end of a turn
save_state_outcome(stored, state_dict, commit_ok) ==
    IF commit_ok THEN save_state_to_db(state_dict)
    ELSE save_state_to_db_rollback(stored, state_dict)

\* the stored dict can be turned into a state object
CanLoad ==
    IF load_state_from_db = <<>> THEN TRUE
    ELSE ~from_dict_raises(load_state_from_db[1])

\* state object a request works on: from_dict of the stored dict, else a new one
LoadedState ==
    IF load_state_from_db # <<>>
    THEN from_dict(load_state_from_db[1])
    ELSE OrchestratorState(SESSION)

----------------------------------------------------------------------------
(* Section ids and the section ledger                                      *)

Digits == << "0", "1", "2", "3", "4", "5", "6", "7", "8", "9" >>

DigitVal(ch) == CHOOSE d \in 0..9 : Digits[d + 1] = ch
IsDigit(ch) == \E d \in 0..9 : Digits[d + 1] = ch

\* f"{chapter_idx}.{section_idx}" for one-digit indices
FormatSectionId(c, s) == << Digits[c + 1], ".", Digits[s + 1] >>

\* chapter_idx, section_idx = map(int, section_id.split('.')): the pair, or
\* <<>> when the split or the conversion raises
ParseSectionId(id) ==
    IF Len(id) = 3 /\ IsDigit(id[1]) /\ id[2] = "." /\ IsDigit(id[3])
    THEN << DigitVal(id[1]), DigitVal(id[3]) >>
    ELSE <<>>

\* SectionModel(session_id=..., chapter_idx=..., section_idx=..., status=...):
\* the row the constructor builds, as a <<key, status>> pair
SectionModel(chapter_idx, section_idx, status) ==
    << << chapter_idx, section_idx >>, status >>

\* _initialize_sections numbering chapters and sections from one
InitializeSections_OneBased(g) ==
    LET rows == UNION { { SectionModel(c, s, "pending") : s \in 1..g[c] }
                        : c \in 1..Len(g) }
    IN  [ k \in { r[1] : r \in rows } |-> (CHOOSE r \in rows : r[1] = k)[2] ]

\* _initialize_sections: enumerate(chapters), enumerate(sections), one row
\* per pair with status "pending"
InitializeSections(g) ==
    LET rows == UNION { { SectionModel(c - 1, s - 1, "pending") : s \in 1..g[c] }
                        : c \in 1..Len(g) }
    IN  [ k \in { r[1] : r \in rows } |-> (CHOOSE r \in rows : r[1] = k)[2] ]

\* get_section: the key of the row, or <<>> when no row matches
get_section(secs, chapter_idx, section_idx) ==
    IF << chapter_idx, section_idx >> \in DOMAIN secs
    THEN << << chapter_idx, section_idx >> >>
    ELSE <<>>

\* save_draft_to_database: parse the id, find the row, status = "draft";
\* a row that is not found, or an id that does not parse, changes nothing
save_draft_to_database(secs, section_id) ==
    LET p == ParseSectionId(section_id) IN
    IF p # <<>> /\ get_section(secs, p[1], p[2]) # <<>>
    THEN [ secs EXCEPT ![p] = "draft" ]
    ELSE secs

\* save_draft_to_database, the draft_html column: the content is assigned to
\* section.content, which is not a column of Section, so the commit leaves
\* draft_html as it was
save_draft_to_database_draft_html(drafts, section_id, content) == drafts

\* mark_section_complete: parse the id, find the row, status = "complete"
mark_section_complete(secs, section_id) ==
    LET p == ParseSectionId(section_id) IN
    IF p # <<>> /\ get_section(secs, p[1], p[2]) # <<>>
    THEN [ secs EXCEPT ![p] = "complete" ]
    ELSE secs

\* section_service.save_section: status = "saved" whatever the row held
save_section(secs, chapter_idx, section_idx) ==
    IF get_section(secs, chapter_idx, section_idx) # <<>>
    THEN [ secs EXCEPT ![<< chapter_idx, section_idx >>] = "saved" ]
    ELSE secs

\* order_by(chapter_idx, section_idx)
KeyLess(a, b) == a[1] < b[1] \/ (a[1] = b[1] /\ a[2] < b[2])

\* get_next_pending_section: first pending row in chapter/section order, or
\* <<>> when none is pending
get_next_pending_section(secs) ==
    LET pending == { k \in DOMAIN secs : secs[k] = "pending" } IN
    IF pending = {} THEN <<>>
    ELSE << CHOOSE k \in pending : \A j \in pending \ {k} : KeyLess(k, j) >>

\* find_next_section: "0.0" on both paths
find_next_section(g) ==
    IF Len(g) > 0
    THEN IF g[1] > 0 THEN Id00 ELSE Id00
    ELSE Id00


\* section ids the lookup is called with: no id, ids of the guide, an index
\* past the end, letters, no dot, two dots, a negative chapter index
MinusOneZero == << "-", "1", ".", "0" >>
LookupIds ==
    { None, Id00, FormatSectionId(1, 1), FormatSectionId(9, 9),
      << "a", ".", "b" >>, << "0" >>, << "0", ".", "0", ".", "0" >>,
      MinusOneZero }

\* map(int, section_id.split('.')) unpacked into two names: the pair, a
\* ValueError for a part that is no integer or a wrong number of parts, an
\* AttributeError for None, which has no split
SplitSectionId(id) ==
    IF id = None THEN [ error |-> "AttributeError" ]
    ELSE IF ParseSectionId(id) # <<>>
    THEN [ chapter_idx |-> ParseSectionId(id)[1], section_idx |-> ParseSectionId(id)[2],
           error |-> "" ]
    ELSE IF id = MinusOneZero
    THEN [ chapter_idx |-> 0 - 1, section_idx |-> 0, error |-> "" ]
    ELSE [ error |-> "ValueError" ]

\* list[i]: the position (from one) of the element, 0 for an IndexError; a
\* negative index counts from the end
ListIndex(n, i) ==
    IF 0 <= i /\ i < n THEN i + 1
    ELSE IF i < 0 /\ 0 - n <= i THEN n + i + 1
    ELSE 0

\* the descriptor of the except branch
PlaceholderSection(section_id) ==
    [ chapter_idx |-> 0 - 1, section_idx |-> 0 - 1,
      section_id |-> section_id, chapter_title |-> "Unknown Chapter",
      section_title |-> "Unknown Section" ]

\* the exceptions of the except clause
CaughtByLookup == { "IndexError", "ValueError", "KeyError", "TypeError" }

\* extract_section_from_guide: parse the id, index the chapters and the
\* sections; the caught exceptions give the placeholder, any other one
\* leaves the function
extract_section_from_guide(g, section_id) ==
    LET p == SplitSectionId(section_id) IN
    IF p.error # ""
    THEN IF p.error \in CaughtByLookup
         THEN [ raised |-> FALSE, value |-> PlaceholderSection(section_id) ]
         ELSE [ raised |-> TRUE, value |-> p.error ]
    ELSE IF ListIndex(Len(g), p.chapter_idx) = 0
    THEN [ raised |-> FALSE, value |-> PlaceholderSection(section_id) ]
    ELSE IF ListIndex(g[ListIndex(Len(g), p.chapter_idx)], p.section_idx) = 0
    THEN [ raised |-> FALSE, value |-> PlaceholderSection(section_id) ]
    ELSE [ raised |-> FALSE,
           value |-> [ chapter_idx |-> p.chapter_idx,
                       section_idx |-> p.section_idx,
                       section_id |-> section_id,
                       chapter_title |-> "chapter title",
                       section_title |-> "section title" ] ]

----------------------------------------------------------------------------
(* Intake: field inference and the collaborator's response                 *)

\* a question of the assistant: the first [A-Z_]+ tag in it ("" when none)
\* and the field whose keyword occurs first in table order ("" when none)
NoQuestion == [ empty |-> TRUE, tag |-> "", keyword_field |-> "" ]
Questions ==
    { NoQuestion,
      [ empty |-> FALSE, tag |-> "TITLE", keyword_field |-> "title" ],
      [ empty |-> FALSE, tag |-> "", keyword_field |-> "department" ],
      [ empty |-> FALSE, tag |-> "SECTION", keyword_field |-> "title" ] }

\* tag_mapping, keyed by the tag (lower-cased in the source)
tag_mapping(tag) ==
    CASE tag = "TITLE" -> "title"
      [] tag = "REPORT_TITLE" -> "title"
      [] tag = "DEPARTMENT" -> "department"
      [] tag = "ACADEMIC_LEVEL" -> "academic_level"
      [] tag = "TARGET_AUDIENCE" -> "target_audience"
      [] tag = "TOPIC" -> "topic"
      [] tag = "LENGTH" -> "length"
      [] tag = "DEADLINE" -> "deadline"
      [] tag = "ADDITIONAL_REQUIREMENTS" -> "additional_requirements"
      [] tag = "FORMAT" -> "format"
      [] tag = "CITATIONS" -> "citations"
      [] tag = "NOTES" -> "notes"
      [] OTHER -> "notes"

\* determine_intake_field: default for no question, the tag's mapping when a
\* tag is present (default for an unknown tag), else the first keyword match
determine_intake_field(previous_question) ==
    IF previous_question.empty THEN "notes"
    ELSE IF previous_question.tag # "" THEN tag_mapping(previous_question.tag)
    ELSE IF previous_question.keyword_field # "" THEN previous_question.keyword_field
    ELSE "notes"

\* the keys of tag_mapping
KnownTags ==
    { "TITLE", "REPORT_TITLE", "DEPARTMENT", "ACADEMIC_LEVEL", "TARGET_AUDIENCE",
      "TOPIC", "LENGTH", "DEADLINE", "ADDITIONAL_REQUIREMENTS", "FORMAT",
      "CITATIONS", "NOTES" }

\* questions for the inference called on its own: no question, or a
\* question with or without a tag (known or not) and with or without a
\* keyword
InferenceQuestions ==
    { NoQuestion } \cup
    [ empty : { FALSE },
      tag : { "", "TITLE", "REPORT_TITLE", "NOTES", "SECTION" },
      keyword_field : { "", "title", "department", "notes" } ]

EmptyDict == [ k \in {} |-> "" ]

\* dict update: the keys of g override those of f
Update(f, g) ==
    [ k \in DOMAIN f \cup DOMAIN g |-> IF k \in DOMAIN g THEN g[k] ELSE f[k] ]

\* store_intake_field that writes a dict holding the one field only
store_intake_field_Replaces(intake, field, value) ==
    [ k \in {field} |-> value ]

\* store_intake_field: intake_json[field] = value
store_intake_field(intake, field, value) ==
    Update(intake, [ k \in {field} |-> value ])

\* requirements blocks the collaborator returns in its metadata
ReqJsons ==
    { EmptyDict,
      [ k \in {"title"} |-> "My Report" ],
      [ k \in {"title"} |-> "" ],
      [ k \in {"department"} |-> "My Report" ],
      [ k \in {"complete_intake", "title"} |-> IF k = "title" THEN "My Report" ELSE "true" ] }

\* generate_intake_response: the completion flag of the metadata, whether the
\* message text matches a completion pattern of the handler, the requirements
\* block, and the question asked next; a block that carries complete_intake
\* sets the flag
IntakeResponses ==
    { r \in [ complete_intake : BOOLEAN,
              message_indicates_completion : BOOLEAN,
              requirements_json : ReqJsons,
              question : Questions ] :
        "complete_intake" \in DOMAIN r.requirements_json => r.complete_intake }

----------------------------------------------------------------------------
(* Planning: bullet extraction                                             *)

\* a stripped, non-empty line of a message: which bullet pattern it matches
\* ("bullet" for -, *, the dot sign; "numbered" for 1. and 1); "text" for
\* neither), the text the pattern captures (the line itself for "text") and
\* whether the line is longer than three characters
Line(kind, text, long) == [ kind |-> kind, text |-> text, long |-> long ]

\* message.strip().split('\n'), each line stripped, empty lines left out
Lines(message) ==
    CASE message = BulletMsg ->
            << Line("bullet", "scope", TRUE), Line("numbered", "method", TRUE),
               Line("text", "and data", TRUE), Line("text", "ok", FALSE) >>
      [] message = "" -> <<>>
      [] OTHER -> << Line("text", message, TRUE) >>

\* the loop of extract_bullet_points over the lines: a bullet line appends
\* its captured text; any other line is appended as a continuation when
\* bullets exist already and it is longer than three characters
RECURSIVE ExtractLoop(_, _)
ExtractLoop(lines, bullets) ==
    IF lines = <<>> THEN bullets
    ELSE LET line == Head(lines)
             is_bullet == line.kind \in { "bullet", "numbered" }
         IN  ExtractLoop(Tail(lines),
                 IF is_bullet THEN Append(bullets, line.text)
                 ELSE IF bullets # <<>> /\ line.long THEN Append(bullets, line.text)
                 ELSE bullets)

extract_bullet_points(message) == ExtractLoop(Lines(message), <<>>)

\* the lines of a message as typed, one string per line; "<U+2022>" stands
\* for the bullet sign U+2022, "ok" is not longer than three characters
MaxBulletLines == 4
BulletLines ==
    { "- point one", "* point two", "<U+2022> point three", "3) point four",
      "4. point five", "plain continuation line", "ok", "" }
BulletTexts == UNION { [ 1..n -> BulletLines ] : n \in 0..MaxBulletLines }

\* the marker the bullet patterns find at the start of a stripped line:
\* [-<U+2022>*] or \d+[.)] followed by white space and text; "" when neither
\* pattern matches
Marker(raw) ==
    CASE raw = "- point one" -> "-"
      [] raw = "* point two" -> "*"
      [] raw = "<U+2022> point three" -> "<U+2022>"
      [] raw = "3) point four" -> "3)"
      [] raw = "4. point five" -> "4."
      [] OTHER -> ""

\* the group (.+) the matching pattern captures: the line after the marker
\* and the white space that follows it
Captured(raw) ==
    CASE raw = "- point one" -> "point one"
      [] raw = "* point two" -> "point two"
      [] raw = "<U+2022> point three" -> "point three"
      [] raw = "3) point four" -> "point four"
      [] raw = "4. point five" -> "point five"
      [] OTHER -> raw

\* len(line) > 3
LongerThanThree(raw) == raw \notin { "ok", "" }

\* one stripped line matched against bullet_patterns in their order
ParsedLine_KeepsMarker(raw) ==
    Line(IF Marker(raw) \in { "-", "*", "<U+2022>" } THEN "bullet"
         ELSE IF Marker(raw) # "" THEN "numbered" ELSE "text",
         raw, LongerThanThree(raw))

ParsedLine(raw) ==
    Line(IF Marker(raw) \in { "-", "*", "<U+2022>" } THEN "bullet"
         ELSE IF Marker(raw) # "" THEN "numbered" ELSE "text",
         Captured(raw), LongerThanThree(raw))

\* `if not line: continue` over the split message, then the loop
RECURSIVE ParsedLines(_)
ParsedLines(raws) ==
    IF raws = <<>> THEN <<>>
    ELSE IF Head(raws) = "" THEN ParsedLines(Tail(raws))
    ELSE << ParsedLine(Head(raws)) >> \o ParsedLines(Tail(raws))

extract_bullet_points_of_lines(raws) == ExtractLoop(ParsedLines(raws), <<>>)

\* memory_service.add_message(..., categories=["bullet_points", section_id]):
\* the entry a later search by these categories finds
add_bullet_points(mem, section_id, bullets) ==
    [ k \in DOMAIN mem \cup { section_id } |->
        IF k = section_id THEN bullets ELSE mem[k] ]

----------------------------------------------------------------------------
(* Phase handlers: each returns the updated state object, what it wrote    *)
(* and the metadata of its response                                        *)

\* the response carries no section_id key
Absent == << "absent" >>

Metadata(phase, section_id) == [ phase |-> phase, section_id |-> section_id ]

\* the collaborator's intake response as the handler returns it: the phase is
\* overwritten, the complete_intake flag of the metadata and the message text
\* are passed through
IntakeMetadata(phase, llm) ==
    [ phase |-> phase, section_id |-> Absent,
      complete_intake |-> llm.complete_intake,
      message_indicates_completion |-> llm.message_indicates_completion ]

\* handle_intake_phase without the title safety net: only the collaborator's
\* signals move the phase
handle_intake_phase_NoTitleCheck(state, intake, previous_question, message, llm) ==
    LET field_to_update == determine_intake_field(previous_question)
        intake1 == store_intake_field(intake, field_to_update, message)
        requirements == [ k \in DOMAIN llm.requirements_json \ {"complete_intake"}
                            |-> llm.requirements_json[k] ]
        intake2 == Update(intake1, requirements)
        transition_to_planning ==
            llm.complete_intake \/ llm.message_indicates_completion
        new_phase == IF transition_to_planning THEN PLANNING ELSE INTAKE
    IN  [ intake_json |-> intake2,
          state |-> [ state EXCEPT !.phase = new_phase ],
          question |-> llm.question,
          metadata |-> IntakeMetadata(new_phase, llm) ]

\* handle_intake_phase that trusts the completion flag and the title only,
\* not the completion patterns in the message text
handle_intake_phase_NoMessagePatterns(state, intake, previous_question, message, llm) ==
    LET field_to_update == determine_intake_field(previous_question)
        intake1 == store_intake_field(intake, field_to_update, message)
        requirements == [ k \in DOMAIN llm.requirements_json \ {"complete_intake"}
                            |-> llm.requirements_json[k] ]
        intake2 == Update(intake1, requirements)
        has_title == "title" \in DOMAIN intake2 /\ intake2["title"] # ""
        transition_to_planning == llm.complete_intake \/ has_title
        new_phase == IF transition_to_planning THEN PLANNING ELSE INTAKE
    IN  [ intake_json |-> intake2,
          state |-> [ state EXCEPT !.phase = new_phase ],
          question |-> llm.question,
          metadata |-> IntakeMetadata(new_phase, llm) ]

\* handle_intake_phase that decides on has_minimum_fields, the presence of
\* the title key, where the code decides on a non-empty title
handle_intake_phase_TitleKeyOnly(state, intake, previous_question, message, llm) ==
    LET field_to_update == determine_intake_field(previous_question)
        intake1 == store_intake_field(intake, field_to_update, message)
        requirements == [ k \in DOMAIN llm.requirements_json \ {"complete_intake"}
                            |-> llm.requirements_json[k] ]
        intake2 == Update(intake1, requirements)
        has_minimum_fields == "title" \in DOMAIN intake2
        transition_to_planning ==
            llm.complete_intake \/ llm.message_indicates_completion
                \/ has_minimum_fields
        new_phase == IF transition_to_planning THEN PLANNING ELSE INTAKE
    IN  [ intake_json |-> intake2,
          state |-> [ state EXCEPT !.phase = new_phase ],
          question |-> llm.question,
          metadata |-> IntakeMetadata(new_phase, llm) ]

\* handle_intake_phase: record the message under the inferred field, merge
\* the collaborator's requirements block, move to planning on a completion
\* flag, a completion pattern or a non-empty title
handle_intake_phase(state, intake, previous_question, message, llm) ==
    LET field_to_update == determine_intake_field(previous_question)
        intake1 == store_intake_field(intake, field_to_update, message)
        requirements == [ k \in DOMAIN llm.requirements_json \ {"complete_intake"}
                            |-> llm.requirements_json[k] ]
        intake2 == Update(intake1, requirements)
        has_title == "title" \in DOMAIN intake2 /\ intake2["title"] # ""
        transition_to_planning ==
            llm.complete_intake \/ llm.message_indicates_completion \/ has_title
        new_phase == IF transition_to_planning THEN PLANNING ELSE INTAKE
    IN  [ intake_json |-> intake2,
          state |-> [ state EXCEPT !.phase = new_phase ],
          question |-> llm.question,
          metadata |-> IntakeMetadata(new_phase, llm) ]

\* handle_planning_phase that asks again when the message has no bullet line
handle_planning_phase_RequiresBullets(state, g, mem, message) ==
    IF state.current_section_id # None
    THEN IF extract_bullet_points(message) = <<>>
         THEN [ bullet_points |-> mem,
                state |-> state,
                metadata |-> Metadata(PLANNING, state.current_section_id) ]
         ELSE [ bullet_points |-> add_bullet_points(mem, state.current_section_id,
                                                    extract_bullet_points(message)),
                state |-> [ state EXCEPT !.phase = EXECUTION ],
                metadata |-> Metadata(EXECUTION, state.current_section_id) ]
    ELSE LET next_section_id == find_next_section(g) IN
         [ bullet_points |-> mem,
           state |-> [ state EXCEPT !.current_section_id = next_section_id ],
           metadata |-> Metadata(PLANNING, next_section_id) ]

\* handle_planning_phase: with a section selected the bullets are stored and
\* the phase moves to execution; without one the next section is selected
handle_planning_phase(state, g, mem, message) ==
    IF state.current_section_id # None
    THEN [ bullet_points |-> add_bullet_points(mem, state.current_section_id,
                                               extract_bullet_points(message)),
           state |-> [ state EXCEPT !.phase = EXECUTION ],
           metadata |-> Metadata(EXECUTION, state.current_section_id) ]
    ELSE LET next_section_id == find_next_section(g) IN
         [ bullet_points |-> mem,
           state |-> [ state EXCEPT !.current_section_id = next_section_id ],
           metadata |-> Metadata(PLANNING, next_section_id) ]

\* handle_execution_phase: the draft is written to the section row and the
\* phase moves to reflection
handle_execution_phase(state, secs, drafts, message) ==
    [ sections |-> save_draft_to_database(secs, state.current_section_id),
      draft_html |-> save_draft_to_database_draft_html(drafts, state.current_section_id,
                                                       "draft_content"),
      state |-> [ state EXCEPT !.phase = REFLECTION ],
      metadata |-> Metadata(REFLECTION, state.current_section_id) ]

\* handle_reflection_phase that resets the section id but not the phase
handle_reflection_phase_KeepsPhase(state, secs, message) ==
    [ sections |-> mark_section_complete(secs, state.current_section_id),
      state |-> [ state EXCEPT !.current_section_id = None ],
      metadata |-> Metadata(PLANNING, Absent) ]

\* handle_reflection_phase: the section row is marked, the section id is
\* reset and the phase moves back to planning
handle_reflection_phase(state, secs, message) ==
    [ sections |-> mark_section_complete(secs, state.current_section_id),
      state |-> [ state EXCEPT !.current_section_id = None, !.phase = PLANNING ],
      metadata |-> Metadata(PLANNING, Absent) ]

\* message.strip().lower()
StripLower(message) ==
    IF message = " Force-Complete-Intake " THEN "force-complete-intake" ELSE message

IsForceComplete(message) == StripLower(message) = "force-complete-intake"

\* the special-command branch without the phase assignment
force_complete_intake_NoTransition(state) == state

\* the special-command branch of process_chat_message
force_complete_intake(state) == [ state EXCEPT !.phase = PLANNING ]

----------------------------------------------------------------------------
(* Guide upload                                                            *)

\* outcomes of the guide parsers: an exception, or a parsed JSON value that
\* is a dict (a guide) or is not
Raised == [ guide |-> <<>>, raised |-> TRUE, is_dict |-> FALSE ]
Returned(is_dict, guide) == [ guide |-> guide, raised |-> FALSE, is_dict |-> is_dict ]

\* extract_text_from_file, the second definition in the module (it replaces
\* the first): the extracted text of a DOCX or PDF encoded to bytes, the
\* content itself for everything else; a failing extraction raises ValueError
extract_text_from_file(file, extraction_ok) ==
    IF file.kind \in { "pdf", "docx" } /\ ~extraction_ok THEN "raised" ELSE "bytes"

\* parse_text_to_guide_structure: text.split('\n') with a str separator
\* raises TypeError on bytes; on a str the rule-based parser builds chapters
\* and fills in a default chapter and section where it found none
parse_text_to_guide_structure(text) ==
    IF text = "bytes" THEN Raised ELSE Returned(TRUE, <<1>>)

\* json.loads(content) in parse_guide_file
json_loads(file) ==
    CASE file.kind = "json_object" -> Returned(TRUE, file.guide)
      [] file.kind = "json_value" -> Returned(FALSE, <<>>)
      [] OTHER -> Raised

\* parse_guide_file: content that is not a PDF or DOCX is returned as
\* json.loads gives it when that succeeds; everything else goes through
\* extract_text_from_file and parse_text_to_guide_structure, any exception is
\* raised again as ValueError
parse_guide_file(file, extraction_ok) ==
    IF file.kind \notin { "pdf", "docx" } /\ ~json_loads(file).raised
    THEN json_loads(file)
    ELSE IF extract_text_from_file(file, extraction_ok) = "raised" THEN Raised
    ELSE parse_text_to_guide_structure(extract_text_from_file(file, extraction_ok))

\* create_new_session up to SessionCreate: extraction or decoding that fails,
\* and a missing API key, raise a ValueError whose text is not "LLM parsing
\* failed", so no parser runs and guide_json is unbound; with a key the call
\* llm_service.parse_guide_to_json raises (LLMService has no such method) and
\* parse_guide_file runs; SessionCreate accepts a dict only; every exception
\* ends as status 400
create_new_session(file, api_key, extraction_ok) ==
    IF extract_text_from_file(file, extraction_ok) = "raised" THEN Raised
    ELSE IF file.kind = "non_utf8" THEN Raised
    ELSE IF ~api_key THEN Raised
    ELSE LET r == parse_guide_file(file, extraction_ok) IN
         IF r.raised THEN Raised
         ELSE IF ~r.is_dict THEN Raised
         ELSE r

----------------------------------------------------------------------------
(* Requests                                                                *)

SessionExists == guide_json # <<>>

NoResponse == Metadata("none", Absent)

\* a request and what went wrong while it was served ("none" when nothing did)
FaultRequest(op, message, phase, fault) ==
    [ phase |-> phase, message |-> message, op |-> op, fault |-> fault ]

Request(op, message, phase) == FaultRequest(op, message, phase, "none")

\* a chat turn, by whether the state save at its end succeeded
TurnRequest(op, message, phase, commit_ok) ==
    FaultRequest(op, message, phase, IF commit_ok THEN "none" ELSE "save_failed")

\* phase of the stored state when the request starts, "none" when nothing is stored
StoredPhase == IF load_state_from_db = <<>> THEN "none" ELSE load_state_from_db[1].phase

\* the ids of two sessions
SessionIds == { "s1", "s2" }

\* a row of the sessions table before create_session wrote it, with the
\* memory entries kept under the session id
NoSessionRow ==
    [ guide_json |-> <<>>, intake_json |-> EmptyDict, state_json |-> <<>>,
      bullet_points |-> [ k \in {} |-> <<>> ], prev_question |-> NoQuestion ]

\* no session created: no section row; `last` is the session of the last
\* request
EmptyTables ==
    [ sections |-> [ k \in {} |-> "pending" ],
      rows |-> [ id \in SessionIds |-> NoSessionRow ],
      last |-> "none" ]

\* the two chat requests that can be in flight at once
Turns == { 1, 2 }

\* a request that has not been sent
IdleTurn ==
    [ state |-> OrchestratorState(SESSION), message |-> "", llm |-> <<>>,
      pc |-> "idle", loaded_phase |-> "none", overlapped |-> FALSE ]

\* no request in flight, the event loop is free (running = 0), no rows
\* remembered
NoneInFlight ==
    [ running |-> 0, turns |-> [ t \in Turns |-> IdleTurn ], base |-> <<>> ]

Init ==
    /\ guide_json = <<>>
    /\ intake_json = EmptyDict
    /\ state_json = <<>>
    /\ sections = [ k \in {} |-> "pending" ]
    /\ draft_html = [ k \in {} |-> <<>> ]
    /\ bullet_points = [ k \in {} |-> <<>> ]
    /\ prev_question = NoQuestion
    /\ response = NoResponse
    /\ last_request = Request("none", "", "none")
    /\ fn_call = [ fn |-> "none" ]
    /\ fn_result = <<>>
    /\ in_flight = NoneInFlight
    /\ tables = EmptyTables

\* create_new_session and create_session: a file that parses gives the
\* session row with the guide and an empty intake_json, then the section
\* rows; any other file is answered with status 400 and nothing is written
CreateSession ==
    /\ ~SessionExists
    /\ \E file \in GuideFiles, api_key \in BOOLEAN, extraction_ok \in BOOLEAN :
        LET r == create_new_session(file, api_key, extraction_ok) IN
        IF r.raised
        THEN /\ last_request' = FaultRequest("create_rejected", file.kind, StoredPhase,
                                             "http_400")
             /\ UNCHANGED << guide_json, sections, draft_html, intake_json >>
        ELSE /\ guide_json' = << r.guide >>
             /\ sections' = InitializeSections(r.guide)
             /\ draft_html' = [ k \in DOMAIN InitializeSections(r.guide) |-> <<>> ]
             /\ intake_json' = EmptyDict
             /\ last_request' = Request("create", "", StoredPhase)
    /\ UNCHANGED << state_json, prev_question, response, bullet_points >>
    /\ UNCHANGED << fn_call, fn_result, in_flight, tables >>

\* process_chat_message for a session id that has no row
ChatNoSession ==
    /\ ~SessionExists
    /\ \E message \in Messages :
        last_request' = Request("chat", message, StoredPhase)
    /\ response' = Metadata("error", Absent)
    /\ UNCHANGED << guide_json, intake_json, state_json, sections, prev_question, draft_html, bullet_points >>
    /\ UNCHANGED << fn_call, fn_result, in_flight, tables >>

\* process_chat_message, special command
ForceCompleteTurnWith(commit_ok) ==
    /\ SessionExists
    /\ CanLoad
    /\ \E message \in Messages :
        /\ IsForceComplete(message)
        /\ state_json' = save_state_outcome(state_json, to_dict(force_complete_intake(LoadedState)), commit_ok)
        /\ response' = Metadata(PLANNING, None)
        /\ last_request' = TurnRequest("force", message, StoredPhase, commit_ok)
    /\ UNCHANGED << guide_json, intake_json, sections, prev_question, draft_html, bullet_points >>
    /\ UNCHANGED << fn_call, fn_result, in_flight, tables >>

ForceCompleteTurn == ForceCompleteTurnWith(TRUE)

\* process_chat_message, phase intake
IntakeTurnFrom(responses, commit_ok) ==
    /\ SessionExists
    /\ CanLoad
    /\ LoadedState.phase = INTAKE
    /\ \E message \in Messages, llm \in responses :
        /\ ~IsForceComplete(message)
        /\ LET r == handle_intake_phase(LoadedState, intake_json, prev_question, message, llm) IN
            /\ intake_json' = r.intake_json
            /\ prev_question' = r.question
            /\ state_json' = save_state_outcome(state_json, to_dict(r.state), commit_ok)
            /\ response' = r.metadata
            /\ last_request' = TurnRequest("intake", message, StoredPhase, commit_ok)
    /\ UNCHANGED << guide_json, sections, draft_html, bullet_points >>
    /\ UNCHANGED << fn_call, fn_result, in_flight, tables >>

IntakeTurnWith(commit_ok) == IntakeTurnFrom(IntakeResponses, commit_ok)

IntakeTurn == IntakeTurnWith(TRUE)

\* process_chat_message, phase planning
PlanningTurnWith(commit_ok) ==
    /\ SessionExists
    /\ CanLoad
    /\ LoadedState.phase = PLANNING
    /\ \E message \in PlanningMessages :
        /\ ~IsForceComplete(message)
        /\ LET r == handle_planning_phase(LoadedState, guide_json[1], bullet_points,
                                          message) IN
            /\ bullet_points' = r.bullet_points
            /\ state_json' = save_state_outcome(state_json, to_dict(r.state), commit_ok)
            /\ response' = r.metadata
            /\ last_request' = TurnRequest("planning", message, StoredPhase, commit_ok)
    /\ UNCHANGED << guide_json, intake_json, sections, prev_question, draft_html >>
    /\ UNCHANGED << fn_call, fn_result, in_flight, tables >>

PlanningTurn == PlanningTurnWith(TRUE)

\* process_chat_message, phase execution
ExecutionTurnWith(commit_ok) ==
    /\ SessionExists
    /\ CanLoad
    /\ LoadedState.phase = EXECUTION
    /\ \E message \in Messages :
        /\ ~IsForceComplete(message)
        /\ LET r == handle_execution_phase(LoadedState, sections, draft_html, message) IN
            /\ sections' = r.sections
            /\ draft_html' = r.draft_html
            /\ state_json' = save_state_outcome(state_json, to_dict(r.state), commit_ok)
            /\ response' = r.metadata
            /\ last_request' = TurnRequest("execution", message, StoredPhase, commit_ok)
    /\ UNCHANGED << guide_json, intake_json, prev_question, bullet_points >>
    /\ UNCHANGED << fn_call, fn_result, in_flight, tables >>

ExecutionTurn == ExecutionTurnWith(TRUE)

\* process_chat_message, phase reflection
ReflectionTurnWith(commit_ok) ==
    /\ SessionExists
    /\ CanLoad
    /\ LoadedState.phase = REFLECTION
    /\ \E message \in Messages :
        /\ ~IsForceComplete(message)
        /\ LET r == handle_reflection_phase(LoadedState, sections, message) IN
            /\ sections' = r.sections
            /\ state_json' = save_state_outcome(state_json, to_dict(r.state), commit_ok)
            /\ response' = r.metadata
            /\ last_request' = TurnRequest("reflection", message, StoredPhase, commit_ok)
    /\ UNCHANGED << guide_json, intake_json, prev_question, draft_html, bullet_points >>
    /\ UNCHANGED << fn_call, fn_result, in_flight, tables >>

ReflectionTurn == ReflectionTurnWith(TRUE)

\* the save-section endpoint
SaveSection ==
    /\ SessionExists
    /\ \E chapter_idx \in 0..MaxIdx, section_idx \in 0..MaxIdx :
        sections' = save_section(sections, chapter_idx, section_idx)
    /\ last_request' = Request("save", "", StoredPhase)
    /\ UNCHANGED << guide_json, intake_json, state_json, prev_question, response, draft_html, bullet_points >>
    /\ UNCHANGED << fn_call, fn_result, in_flight, tables >>

Next ==
    \/ CreateSession
    \/ ChatNoSession
    \/ ForceCompleteTurn
    \/ IntakeTurn
    \/ PlanningTurn
    \/ ExecutionTurn
    \/ ReflectionTurn
    \/ SaveSection

Spec == Init /\ [][Next]_vars

\* the section loop on its own: session creation and ordinary chat turns, no
\* control message and no explicit save
LoopNext ==
    \/ CreateSession
    \/ IntakeTurn
    \/ PlanningTurn
    \/ ExecutionTurn
    \/ ReflectionTurn

\* the turns of the loop are driven repeatedly: a turn that can run is
\* eventually run
LoopSpec ==
    /\ Init
    /\ [][LoopNext]_vars
    /\ WF_vars(PlanningTurn)
    /\ WF_vars(ExecutionTurn)
    /\ WF_vars(ReflectionTurn)

\* the rows a turn reads and writes
DbRows ==
    [ intake_json |-> intake_json, state_json |-> state_json,
      sections |-> sections, draft_html |-> draft_html,
      bullet_points |-> bullet_points, prev_question |-> prev_question ]

\* the state object made from a stored dict, a new one when nothing is stored
LoadedFrom(stored) ==
    IF stored # <<>> /\ DOMAIN stored[1] # {}
    THEN from_dict(stored[1])
    ELSE OrchestratorState(SESSION)

\* process_chat_message after the load: the special command or the handler
\* of the loaded phase on the rows, then save_state_to_db
process_chat_message(db, g, state, message, llm) ==
    IF IsForceComplete(message)
    THEN [ metadata |-> Metadata(PLANNING, None),
           op |-> "force", db |-> [ db EXCEPT !.state_json =
                        save_state_to_db(to_dict(force_complete_intake(state))) ] ]
    ELSE IF state.phase = INTAKE
    THEN LET r == handle_intake_phase(state, db.intake_json, db.prev_question,
                                      message, llm[1]) IN
         [ metadata |-> r.metadata,
           op |-> "intake", db |-> [ db EXCEPT !.state_json = save_state_to_db(to_dict(r.state)),
                              !.intake_json = r.intake_json,
                              !.prev_question = r.question ] ]
    ELSE IF state.phase = PLANNING
    THEN LET r == handle_planning_phase(state, g, db.bullet_points, message) IN
         [ metadata |-> r.metadata,
           op |-> "planning", db |-> [ db EXCEPT !.state_json = save_state_to_db(to_dict(r.state)),
                              !.bullet_points = r.bullet_points ] ]
    ELSE IF state.phase = EXECUTION
    THEN LET r == handle_execution_phase(state, db.sections, db.draft_html,
                                         message) IN
         [ metadata |-> r.metadata,
           op |-> "execution", db |-> [ db EXCEPT !.state_json = save_state_to_db(to_dict(r.state)),
                              !.sections = r.sections,
                              !.draft_html = r.draft_html ] ]
    ELSE LET r == handle_reflection_phase(state, db.sections, message) IN
         [ metadata |-> r.metadata,
           op |-> "reflection", db |-> [ db EXCEPT !.state_json = save_state_to_db(to_dict(r.state)),
                              !.sections = r.sections ] ]

----------------------------------------------------------------------------
(* Faults: a stored state this code did not write, a failing state save,   *)
(* failing collaborators                                                   *)

\* the chat endpoint turns an exception of process_chat_message into
\* HTTPException(status_code=500)
HTTP_500 == Metadata("http_500", Absent)

\* dicts the state_json column can hold that to_dict did not write: an empty
\* one, one without current_section_id, one with a phase outside the enum
ForeignStates ==
    { EmptyDict,
      [ session_id |-> SESSION, phase |-> PLANNING ],
      [ session_id |-> SESSION, phase |-> "done", current_section_id |-> None ] }

\* the column is written from outside a chat turn
StoreForeignState ==
    /\ SessionExists
    /\ \E d \in ForeignStates : state_json' = << d >>
    /\ last_request' = Request("foreign_state", "", StoredPhase)
    /\ UNCHANGED << guide_json, intake_json, sections, draft_html, bullet_points,
                    prev_question, response >>
    /\ UNCHANGED << fn_call, fn_result, in_flight, tables >>

\* process_chat_message when from_dict raises: both the special-command
\* branch and the dispatch call it without a handler, the endpoint answers
\* with status 500
ChatStateUnreadable ==
    /\ SessionExists
    /\ ~CanLoad
    /\ \E message \in Messages :
        last_request' = FaultRequest("chat", message, StoredPhase, "state_unreadable")
    /\ response' = HTTP_500
    /\ UNCHANGED << guide_json, intake_json, state_json, sections, draft_html,
                    bullet_points, prev_question >>
    /\ UNCHANGED << fn_call, fn_result, in_flight, tables >>

\* process_chat_message, phase outside the enum: the error response, and the
\* loaded state is saved back as it is
UnknownPhaseTurn ==
    /\ SessionExists
    /\ CanLoad
    /\ LoadedState.phase \notin Phase
    /\ \E message \in Messages :
        /\ ~IsForceComplete(message)
        /\ last_request' = FaultRequest("chat", message, StoredPhase, "unknown_phase")
    /\ state_json' = save_state_to_db(to_dict(LoadedState))
    /\ response' = Metadata("error", Absent)
    /\ UNCHANGED << guide_json, intake_json, sections, draft_html, bullet_points,
                    prev_question >>
    /\ UNCHANGED << fn_call, fn_result, in_flight, tables >>

\* the generated intake responses the fault runs draw from: a question about
\* the title, and a response that carries the title and the completion flag
FaultIntakeResponses ==
    { [ complete_intake |-> FALSE, message_indicates_completion |-> FALSE,
        requirements_json |-> EmptyDict,
        question |-> [ empty |-> FALSE, tag |-> "TITLE", keyword_field |-> "title" ] ],
      [ complete_intake |-> TRUE, message_indicates_completion |-> FALSE,
        requirements_json |->
            [ k \in {"complete_intake", "title"} |->
                IF k = "title" THEN "My Report" ELSE "true" ],
        question |-> NoQuestion ] }

\* the collaborator's responses a turn can get when it runs on a state: one
\* of the intake responses for an intake turn (<<response>>), none (<<>>)
\* otherwise
TurnResponses(state, message) ==
    IF state.phase = INTAKE /\ ~IsForceComplete(message)
    THEN { << llm >> : llm \in FaultIntakeResponses }
    ELSE { <<>> }

\* the intake turn of the fault runs
FaultIntakeTurn == IntakeTurnFrom(FaultIntakeResponses, TRUE)

\* the turns with a failing state save at their end
ForceCompleteTurnSaveFails == ForceCompleteTurnWith(FALSE)
IntakeTurnSaveFails == IntakeTurnFrom(FaultIntakeResponses, FALSE)
PlanningTurnSaveFails == PlanningTurnWith(FALSE)
ExecutionTurnSaveFails == ExecutionTurnWith(FALSE)
ReflectionTurnSaveFails == ReflectionTurnWith(FALSE)

\* the message the intake handler substitutes when generate_intake_response
\* raises: no tag and no keyword of determine_intake_field occurs in it
ApologyQuestion == [ empty |-> FALSE, tag |-> "", keyword_field |-> "" ]

\* the response the intake handler substitutes: no flag, no completion
\* pattern in the text, no requirements block
FallbackIntakeResponse ==
    [ complete_intake |-> FALSE, message_indicates_completion |-> FALSE,
      requirements_json |-> EmptyDict, question |-> ApologyQuestion ]

\* intake turn with a failing collaborator: a failing memory read leaves the
\* previous question empty, a failing generation is replaced by the fallback
\* response; both are caught in the handler
IntakeTurnCollaboratorFails ==
    /\ SessionExists
    /\ CanLoad
    /\ LoadedState.phase = INTAKE
    /\ \E message \in Messages, failing \in { "memory", "generation" },
          llm \in FaultIntakeResponses :
        /\ ~IsForceComplete(message)
        /\ LET previous_question ==
                   IF failing = "memory" THEN NoQuestion ELSE prev_question
               resp == IF failing = "generation" THEN FallbackIntakeResponse ELSE llm
               r == handle_intake_phase(LoadedState, intake_json, previous_question,
                                        message, resp)
           IN  /\ intake_json' = r.intake_json
               /\ prev_question' = r.question
               /\ state_json' = save_state_to_db(to_dict(r.state))
               /\ response' = r.metadata
               /\ last_request' = FaultRequest("intake", message, StoredPhase,
                                               "collaborator_failed")
    /\ UNCHANGED << guide_json, sections, draft_html, bullet_points >>
    /\ UNCHANGED << fn_call, fn_result, in_flight, tables >>

\* process_chat_message with the save in a finally block: the state object
\* the handler worked on is written although the handler raised
state_after_abort_SavedAnyway(stored, state) == save_state_to_db(to_dict(state))

\* process_chat_message when the handler raises: the exception leaves the
\* function before save_state_to_db is reached, the column keeps the stored
\* dict and the state object the handler worked on is dropped
state_after_abort(stored, state) == stored

\* planning turn with a failing collaborator: with a section selected the only
\* call is the memory write, whose failure add_message swallows (the bullets
\* are not stored); without one generate_planner_response is called outside
\* any try block, so the turn ends in the endpoint's status 500 before the
\* state is saved
PlanningTurnCollaboratorFails ==
    /\ SessionExists
    /\ CanLoad
    /\ LoadedState.phase = PLANNING
    /\ \E message \in PlanningMessages :
        /\ ~IsForceComplete(message)
        /\ IF LoadedState.current_section_id # None
           THEN LET r == handle_planning_phase(LoadedState, guide_json[1],
                                               bullet_points, message)
                IN  /\ state_json' = save_state_to_db(to_dict(r.state))
                    /\ response' = r.metadata
           ELSE /\ state_json' =
                    state_after_abort(state_json,
                        [ LoadedState EXCEPT
                            !.current_section_id = find_next_section(guide_json[1]) ])
                /\ response' = HTTP_500
        /\ last_request' = FaultRequest("planning", message, StoredPhase,
                                        "collaborator_failed")
    /\ UNCHANGED << guide_json, intake_json, sections, draft_html, bullet_points,
                    prev_question >>
    /\ UNCHANGED << fn_call, fn_result, in_flight, tables >>

\* execution turn with a failing collaborator: a failing memory read is
\* replaced by the default bullets and the turn runs as usual; a failing
\* generate_executor_response is not caught, nothing is written
ExecutionTurnCollaboratorFails ==
    /\ SessionExists
    /\ CanLoad
    /\ LoadedState.phase = EXECUTION
    /\ \E message \in Messages, failing \in { "memory", "generation" } :
        /\ ~IsForceComplete(message)
        /\ IF failing = "memory"
           THEN LET r == handle_execution_phase(LoadedState, sections, draft_html,
                                                message)
                IN  /\ sections' = r.sections
                    /\ draft_html' = r.draft_html
                    /\ state_json' = save_state_to_db(to_dict(r.state))
                    /\ response' = r.metadata
           ELSE /\ UNCHANGED << sections, draft_html >>
                /\ state_json' = state_after_abort(state_json, LoadedState)
                /\ response' = HTTP_500
        /\ last_request' = FaultRequest("execution", message, StoredPhase,
                                        "collaborator_failed")
    /\ UNCHANGED << guide_json, intake_json, bullet_points, prev_question >>
    /\ UNCHANGED << fn_call, fn_result, in_flight, tables >>

\* reflection turn with a failing collaborator: the memory read is caught
\* (empty draft), the response text is fixed, the turn runs as usual
ReflectionTurnCollaboratorFails ==
    /\ SessionExists
    /\ CanLoad
    /\ LoadedState.phase = REFLECTION
    /\ \E message \in Messages :
        /\ ~IsForceComplete(message)
        /\ LET r == handle_reflection_phase(LoadedState, sections, message) IN
            /\ sections' = r.sections
            /\ state_json' = save_state_to_db(to_dict(r.state))
            /\ response' = r.metadata
            /\ last_request' = FaultRequest("reflection", message, StoredPhase,
                                            "collaborator_failed")
    /\ UNCHANGED << guide_json, intake_json, draft_html, bullet_points, prev_question >>
    /\ UNCHANGED << fn_call, fn_result, in_flight, tables >>

\* process_chat_message when load_state_from_db catches an exception of the
\* query or of the read of session.state_json and returns None although a
\* state is stored: the turn runs on a new OrchestratorState, and its save
\* writes over the stored one
ChatTurnLoadFails ==
    /\ SessionExists
    /\ state_json # <<>>
    /\ \E message \in Messages :
       \E llm \in TurnResponses(OrchestratorState(SESSION), message) :
        LET r == process_chat_message(DbRows, guide_json[1],
                                      OrchestratorState(SESSION), message, llm)
        IN  /\ state_json' = r.db.state_json
            /\ intake_json' = r.db.intake_json
            /\ prev_question' = r.db.prev_question
            /\ response' = r.metadata
            /\ last_request' = FaultRequest(r.op, message, "none", "load_failed")
    /\ UNCHANGED << guide_json, sections, draft_html, bullet_points >>
    /\ UNCHANGED << fn_call, fn_result, in_flight, tables >>

FaultNext ==
    \/ CreateSession
    \/ ForceCompleteTurn
    \/ FaultIntakeTurn
    \/ PlanningTurn
    \/ ExecutionTurn
    \/ ReflectionTurn
    \/ StoreForeignState
    \/ ChatStateUnreadable
    \/ UnknownPhaseTurn
    \/ ForceCompleteTurnSaveFails
    \/ IntakeTurnSaveFails
    \/ PlanningTurnSaveFails
    \/ ExecutionTurnSaveFails
    \/ ReflectionTurnSaveFails
    \/ IntakeTurnCollaboratorFails
    \/ PlanningTurnCollaboratorFails
    \/ ExecutionTurnCollaboratorFails
    \/ ReflectionTurnCollaboratorFails
    \/ ChatTurnLoadFails

\* the chat turns with their faults; no explicit save of sections
FaultSpec == Init /\ [][FaultNext]_vars

----------------------------------------------------------------------------
(* Guide extraction from a generated response: llm/guide_parser.py         *)

\* _sanitize_json: the text between the first { and the last } is parsed as
\* it is; after a JSONDecodeError trailing commas are removed, bare keys are
\* quoted, single quotes become double quotes and the text is parsed again;
\* the second JSONDecodeError is raised.  The parsed value is identified
\* with the titles it carries.
sanitize_json(text) ==
    IF text.defect \in { "none", "trailing_comma", "unquoted_key", "single_quotes" }
    THEN [ raised |-> FALSE, value |-> text.titles ]
    ELSE [ raised |-> TRUE, value |-> <<>> ]

\* the pattern "title"\s*:\s*"(Chapter [^"]+)" of _extract_partial_json:
\* capital C, a space and at least one more character
IsChapterTitle(title) == title \in { "Chapter 1", "Chapter Two" }

\* the chapter _extract_partial_json builds for its i-th match
ExtractedChapter(i, title) ==
    [ sections |-> << [ requirements |-> "Requirement extracted from guide",
                        title |-> "Section " \o ToString(i) \o ".1" ] >>,
      title |-> title ]

\* the chapter _extract_partial_json adds when nothing matched
PlaceholderChapter ==
    [ sections |-> << [ requirements |-> "Requirement should be added manually",
                        title |-> "Section 1.1" ] >>,
      title |-> "Chapter 1" ]

\* _extract_partial_json without the placeholder
extract_partial_json_NoPlaceholder(text) ==
    LET matches == SelectSeq(text.titles, IsChapterTitle)
    IN  [ i \in 1..Len(matches) |-> ExtractedChapter(i, matches[i]) ]

\* _extract_partial_json: one chapter with one generated section per match
\* of the chapter pattern, in the order of the text; the placeholder chapter
\* when the list is empty
extract_partial_json(text) ==
    LET matches == SelectSeq(text.titles, IsChapterTitle)
        chapters == [ i \in 1..Len(matches) |-> ExtractedChapter(i, matches[i]) ]
    IN  IF chapters = <<>> THEN << PlaceholderChapter >> ELSE chapters

\* _extract_full_guide letting the error of _sanitize_json through
extract_full_guide_Raises(text) ==
    LET parsed == sanitize_json(text)
    IN  IF parsed.raised
        THEN [ guide |-> <<>>, raised |-> TRUE, tier |-> "none" ]
        ELSE [ guide |-> parsed.value, raised |-> FALSE, tier |-> "sanitizer" ]

\* _extract_full_guide after the generation call: the response (or the
\* content of its json code block) goes through _sanitize_json; any exception
\* is caught and the whole response goes through _extract_partial_json
extract_full_guide(text) ==
    LET parsed == sanitize_json(text)
    IN  IF parsed.raised
        THEN [ guide |-> extract_partial_json(text), raised |-> FALSE, tier |-> "partial" ]
        ELSE [ guide |-> parsed.value, raised |-> FALSE, tier |-> "sanitizer" ]

----------------------------------------------------------------------------
(* Rule-based guide parser: parse_text_to_guide_structure on a str         *)

\* chapter_patterns: "chapter N", "N. Xyz", a roman numeral, an upper-case line
MatchesChapterPattern(line) == line = "1. Introduction"

\* section_patterns, and the extra pattern ^\d+\.\d+\s+ of is_section
MatchesSectionPattern(line) == line = "1.1 Background"

\* subsection_patterns, and the extra pattern ^\d+\.\d+\.\d+\s+
MatchesSubsectionPattern(line) == line = "1.1.1 Details"

\* len(line) < 60
IsShortLine(line) == line # LongLine

\* chapter["title"].split(" ")[0]; every line of the set has a space
FirstWord(title) ==
    CASE title = "1. Introduction" -> "1."
      [] title = "1.1 Background" -> "1.1"
      [] title = "1.1.1 Details" -> "1.1.1"
      [] title = "some content" -> "some"
      [] title = "more content" -> "more"
      [] OTHER -> "This"

\* the parser's variables before the first line: no chapter, no current
\* section or subsection, an empty content buffer.  The current chapter is
\* the last chapter, the current section its last section, the current
\* subsection that section's last subsection.  Requirements are kept as the
\* list of the joined lines, <<>> for the empty string.
OutlineStart ==
    [ chapters |-> <<>>, has_section |-> FALSE, has_subsection |-> FALSE, buffer |-> <<>> ]

\* the last chapter with its last section replaced
WithLastSection(chapters, section) ==
    LET c == Len(chapters)
        n == Len(chapters[c].sections)
    IN  [ chapters EXCEPT ![c].sections[n] = section ]

LastSection(chapters) ==
    chapters[Len(chapters)].sections[Len(chapters[Len(chapters)].sections)]

\* save_current_content: a non-empty buffer is joined and cleared; the text
\* becomes the requirements of the current subsection, else of the current
\* section, and is assigned to nothing when there is neither
save_current_content(st) ==
    IF st.buffer = <<>> THEN st
    ELSE IF st.has_subsection
    THEN LET sec == LastSection(st.chapters)
             k == Len(sec.subsections)
         IN  [ st EXCEPT !.buffer = <<>>,
                         !.chapters = WithLastSection(st.chapters,
                             [ sec EXCEPT !.subsections[k].requirements = st.buffer ]) ]
    ELSE IF st.has_section
    THEN [ st EXCEPT !.buffer = <<>>,
                     !.chapters = WithLastSection(st.chapters,
                         [ LastSection(st.chapters) EXCEPT !.requirements = st.buffer ]) ]
    ELSE [ st EXCEPT !.buffer = <<>> ]

\* one pass of the loop over enumerate(lines), i counted from zero
OutlineStep(st, i, line) ==
    LET is_chapter ==
            \/ MatchesChapterPattern(line)
            \/ i < 5 /\ IsShortLine(line) /\ st.chapters = <<>>
        is_section == MatchesSectionPattern(line)
        is_subsection == MatchesSubsectionPattern(line)
        saved == save_current_content(st)
    IN  IF is_chapter
        THEN [ saved EXCEPT
                 !.chapters = Append(saved.chapters, [ sections |-> <<>>, title |-> line ]),
                 !.has_section = FALSE,
                 !.has_subsection = FALSE ]
        ELSE IF is_section /\ st.chapters # <<>>
        THEN [ saved EXCEPT
                 !.chapters[Len(saved.chapters)].sections =
                     Append(saved.chapters[Len(saved.chapters)].sections,
                            [ requirements |-> <<>>, title |-> line, subsections |-> <<>> ]),
                 !.has_section = TRUE,
                 !.has_subsection = FALSE ]
        ELSE IF is_subsection /\ st.has_section
        THEN LET sec == LastSection(saved.chapters)
             IN  [ saved EXCEPT
                     !.chapters = WithLastSection(saved.chapters,
                         [ sec EXCEPT !.subsections =
                             Append(sec.subsections,
                                    [ requirements |-> <<>>, title |-> line ]) ]),
                     !.has_subsection = TRUE ]
        ELSE [ st EXCEPT !.buffer = Append(st.buffer, line) ]

RECURSIVE OutlineLoop(_, _, _)
OutlineLoop(st, lines, i) ==
    IF i >= Len(lines) THEN st
    ELSE OutlineLoop(OutlineStep(st, i, lines[i + 1]), lines, i + 1)

\* the section given to a chapter that has none
ChapterNameSection(chapter) ==
    [ requirements |-> << "Please provide content for this section." >>,
      title |-> FirstWord(chapter.title),
      subsections |-> <<>> ]

\* a section without its own text and with one subsection takes that
\* subsection's requirements and loses the list; an empty list is deleted
\* (a deleted list and an empty one are both <<>> here)
FlattenSection(section) ==
    IF section.subsections # <<>> /\ section.requirements = <<>>
       /\ Len(section.subsections) = 1
    THEN [ section EXCEPT !.requirements = section.subsections[1].requirements,
                          !.subsections = <<>> ]
    ELSE section

\* the pass over the chapters after the loop
CompleteChapter(chapter) ==
    LET secs == IF chapter.sections = <<>>
                THEN << ChapterNameSection(chapter) >>
                ELSE chapter.sections
    IN  [ chapter EXCEPT !.sections = [ k \in 1..Len(secs) |-> FlattenSection(secs[k]) ] ]

\* the default structure
DefaultChapter ==
    [ sections |-> << [ requirements |-> << "Please provide content for this section." >>,
                        title |-> "Section 1",
                        subsections |-> <<>> ] >>,
      title |-> "Chapter 1" ]

\* parse_text_to_guide_structure without the pass that completes chapters
guide_structure_NoCompletion(lines) ==
    LET st == save_current_content(OutlineLoop(OutlineStart, lines, 0))
    IN  IF st.chapters = <<>> THEN << DefaultChapter >> ELSE st.chapters

\* parse_text_to_guide_structure on a str, given its stripped non-empty
\* lines: the chapters of the returned guide
guide_structure(lines) ==
    LET st == save_current_content(OutlineLoop(OutlineStart, lines, 0))
        chapters == [ c \in 1..Len(st.chapters) |-> CompleteChapter(st.chapters[c]) ]
    IN  IF chapters = <<>> THEN << DefaultChapter >> ELSE chapters

----------------------------------------------------------------------------
(* Two chat requests of one session in flight: app/main.py runs one server *)
(* process, chat_with_orchestrator and process_chat_message are coroutines *)
(* on its event loop                                                       *)

\* messages of the requests in flight
ConcMessages == { "My Report", ForceMsg }

\* client.messages.create awaited from an asynchronous client: the coroutine
\* gives up the event loop while the collaborator answers
messages_create_blocks_Awaited == FALSE

\* client.messages.create of the synchronous anthropic.Anthropic client, and
\* the synchronous mem0 and database calls: the coroutine keeps the event
\* loop from the load of the state to the save
messages_create_blocks == TRUE

\* the turn reaches a point where another coroutine can run: only a
\* collaborator call could be one, and the special command makes none
Suspends(message) == ~IsForceComplete(message) /\ ~messages_create_blocks

\* a chat request of the session arrives while the other may be in flight
SendTurn(t) ==
    /\ SessionExists
    /\ CanLoad
    /\ in_flight.turns[t].pc = "idle"
    /\ \E message \in ConcMessages :
        in_flight' =
            [ in_flight EXCEPT
                !.turns[t] = [ IdleTurn EXCEPT !.pc = "received",
                                               !.message = message ],
                !.base = IF in_flight.base = <<>> THEN << DbRows >>
                         ELSE in_flight.base ]
    /\ UNCHANGED << guide_json, intake_json, state_json, sections, draft_html,
                    bullet_points, prev_question, response, last_request,
                    fn_call, fn_result, tables >>

\* the coroutine of the request starts when the event loop is free:
\* get_session_by_id, load_state_from_db, from_dict
TurnLoads(t) ==
    /\ in_flight.turns[t].pc = "received"
    /\ in_flight.running = 0
    /\ in_flight' =
         [ in_flight EXCEPT
             !.turns[t] =
                 [ @ EXCEPT !.pc = "loaded",
                            !.state = LoadedState,
                            !.loaded_phase = StoredPhase,
                            !.overlapped =
                                \E u \in Turns \ {t} :
                                    in_flight.turns[u].pc \in { "received", "loaded" } ],
             !.running = IF Suspends(in_flight.turns[t].message) THEN 0 ELSE t ]
    /\ UNCHANGED << guide_json, intake_json, state_json, sections, draft_html,
                    bullet_points, prev_question, response, last_request,
                    fn_call, fn_result, tables >>

\* the rest of the coroutine: the handler of the loaded phase, the state
\* save and the response
TurnSaves(t) ==
    /\ in_flight.turns[t].pc = "loaded"
    /\ in_flight.running \in { 0, t }
    /\ \E llm \in TurnResponses(in_flight.turns[t].state, in_flight.turns[t].message) :
        LET turn == in_flight.turns[t]
            r == process_chat_message(DbRows, guide_json[1], turn.state,
                                      turn.message, llm)
        IN  /\ state_json' = r.db.state_json
            /\ intake_json' = r.db.intake_json
            /\ prev_question' = r.db.prev_question
            /\ sections' = r.db.sections
            /\ draft_html' = r.db.draft_html
            /\ bullet_points' = r.db.bullet_points
            /\ response' = r.metadata
            /\ last_request' = Request(r.op, turn.message, turn.loaded_phase)
            /\ in_flight' = [ in_flight EXCEPT !.turns[t].pc = "done",
                                               !.turns[t].llm = llm,
                                               !.running = 0 ]
    /\ UNCHANGED << guide_json, fn_call, fn_result, tables >>

\* one request at a time, as in Spec, while none is in flight
Quiet == in_flight = NoneInFlight

ConcNext ==
    \/ Quiet /\ CreateSession
    \/ Quiet /\ ForceCompleteTurn
    \/ Quiet /\ FaultIntakeTurn
    \/ Quiet /\ PlanningTurn
    \/ Quiet /\ ExecutionTurn
    \/ Quiet /\ ReflectionTurn
    \/ \E t \in Turns : SendTurn(t)
    \/ \E t \in Turns : TurnLoads(t)
    \/ \E t \in Turns : TurnSaves(t)

\* turns one at a time, then two requests of the session in flight at once
ConcSpec == Init /\ [][ConcNext]_vars

----------------------------------------------------------------------------
(* Two sessions: every query filters on the session id                     *)

\* guides and messages of the two sessions
MultiGuides == { <<1>>, <<1, 2>> }
MultiMessages == { "My Report", ForceMsg }

\* db.query(SectionModel).filter(SectionModel.session_id == session_id, ...):
\* the rows of the session, by <<chapter_idx, section_idx>>
query_sections(all, session_id) ==
    [ k \in { << key[2], key[3] >> : key \in { x \in DOMAIN all : x[1] = session_id } }
        |-> all[<< session_id, k[1], k[2] >>] ]

\* the section writes of a turn without the session filter: every row with
\* the chapter and section index gets the status
commit_sections_NoSessionFilter(all, session_id, secs) ==
    [ key \in DOMAIN all |->
        IF << key[2], key[3] >> \in DOMAIN secs
        THEN secs[<< key[2], key[3] >>] ELSE all[key] ]

\* the section writes of a turn: the rows found under the session id get
\* their new status, db.commit()
commit_sections(all, session_id, secs) ==
    [ key \in DOMAIN all |->
        IF key[1] = session_id THEN secs[<< key[2], key[3] >>] ELSE all[key] ]

\* the writes of a turn to the session row, with the guide column assigned
\* as well
commit_session_row_AssignsGuide(row, db) ==
    [ row EXCEPT !.guide_json = << <<1>> >>,
                 !.state_json = db.state_json,
                 !.intake_json = db.intake_json,
                 !.prev_question = db.prev_question,
                 !.bullet_points = db.bullet_points ]

\* the writes of a turn to the session row and to the memory kept under the
\* session id: store_intake_field assigns intake_json, save_state_to_db
\* assigns state_json; no handler assigns guide_json
commit_session_row(row, db) ==
    [ row EXCEPT !.state_json = db.state_json,
                 !.intake_json = db.intake_json,
                 !.prev_question = db.prev_question,
                 !.bullet_points = db.bullet_points ]

\* create_session and _initialize_sections for one of the sessions
CreateSessionFor(id) ==
    /\ tables.rows[id].guide_json = <<>>
    /\ \E g \in MultiGuides :
        tables' =
            [ tables EXCEPT
                !.rows[id] = [ NoSessionRow EXCEPT !.guide_json = << g >> ],
                !.sections =
                    Update(tables.sections,
                           [ key \in { << id, k[1], k[2] >> :
                                         k \in DOMAIN InitializeSections(g) }
                               |-> InitializeSections(g)[<< key[2], key[3] >>] ]),
                !.last = id ]
    /\ UNCHANGED << guide_json, intake_json, state_json, sections, draft_html,
                    bullet_points, prev_question, response, last_request,
                    fn_call, fn_result, in_flight >>

\* the state object of a session: from_dict of its stored dict, else a new one
LoadedStateOf(row, id) ==
    IF row.state_json # <<>> /\ DOMAIN row.state_json[1] # {}
    THEN from_dict(row.state_json[1])
    ELSE OrchestratorState(id)

\* process_chat_message for one of the sessions: get_session_by_id, the
\* load, the handler on the rows of the session, the save
ChatTurnFor(id) ==
    /\ tables.rows[id].guide_json # <<>>
    /\ \E message \in MultiMessages :
       \E llm \in TurnResponses(LoadedStateOf(tables.rows[id], id), message) :
        LET row == tables.rows[id]
            secs == query_sections(tables.sections, id)
            db == [ intake_json |-> row.intake_json, state_json |-> row.state_json,
                    sections |-> secs, draft_html |-> [ k \in DOMAIN secs |-> <<>> ],
                    bullet_points |-> row.bullet_points,
                    prev_question |-> row.prev_question ]
            r == process_chat_message(db, row.guide_json[1],
                                      LoadedStateOf(row, id), message, llm)
        IN  tables' =
                [ tables EXCEPT
                    !.rows[id] = commit_session_row(row, r.db),
                    !.sections = commit_sections(tables.sections, id, r.db.sections),
                    !.last = id ]
    /\ UNCHANGED << guide_json, intake_json, state_json, sections, draft_html,
                    bullet_points, prev_question, response, last_request,
                    fn_call, fn_result, in_flight >>

MultiNext ==
    \/ \E id \in SessionIds : CreateSessionFor(id)
    \/ \E id \in SessionIds : ChatTurnFor(id)

\* requests of two sessions in any order
MultiSpec == Init /\ [][MultiNext]_vars

----------------------------------------------------------------------------
(* Direct calls of the parsers and helpers                                 *)

\* no call has been made in this run
NoCallYet == fn_call.fn = "none"

\* one call: the name and input are recorded with what the call returned
Call(fn, arg, result) ==
    /\ fn_call' = [ fn |-> fn, arg |-> arg ]
    /\ fn_result' = result
    /\ UNCHANGED << guide_json, intake_json, state_json, sections, draft_html,
                    bullet_points, prev_question, response, last_request, in_flight, tables >>

\* create_new_session up to SessionCreate, for every file, with and without
\* the API key
Call_create_new_session ==
    /\ NoCallYet
    /\ \E file \in GuideFiles, api_key \in BOOLEAN, extraction_ok \in BOOLEAN :
            Call("create_new_session",
                 [ file |-> file, extraction_ok |-> extraction_ok, api_key |-> api_key ],
                 create_new_session(file, api_key, extraction_ok))

\* _extract_full_guide on every generated response
Call_extract_full_guide ==
    /\ NoCallYet
    /\ \E text \in AiResponses :
            Call("extract_full_guide", text, extract_full_guide(text))

\* _extract_partial_json on every text
Call_extract_partial_json ==
    /\ NoCallYet
    /\ \E text \in AiResponses :
            Call("extract_partial_json", text, extract_partial_json(text))

\* parse_text_to_guide_structure on every guide text
Call_guide_structure ==
    /\ NoCallYet
    /\ \E lines \in OutlineTexts :
            Call("guide_structure", lines, guide_structure(lines))

Call_determine_intake_field ==
    /\ NoCallYet
    /\ \E previous_question \in InferenceQuestions :
            Call("determine_intake_field", previous_question,
                 determine_intake_field(previous_question))

Call_extract_section_from_guide ==
    /\ NoCallYet
    /\ \E g \in UploadedGuides, section_id \in LookupIds :
            Call("extract_section_from_guide",
                 [ guide |-> g, section_id |-> section_id ],
                 extract_section_from_guide(g, section_id))

Call_extract_bullet_points ==
    /\ NoCallYet
    /\ \E raws \in BulletTexts :
            Call("extract_bullet_points", raws,
                 extract_bullet_points_of_lines(raws))

CallNext ==
    \/ Call_create_new_session
    \/ Call_extract_full_guide
    \/ Call_extract_partial_json
    \/ Call_guide_structure
    \/ Call_extract_bullet_points
    \/ Call_determine_intake_field
    \/ Call_extract_section_from_guide

\* the parsers and helpers called on their own, on every input of the sets
CallSpec == Init /\ [][CallNext]_vars

----------------------------------------------------------------------------
(* Properties                                                              *)

StateIs(phase, section_id) ==
    /\ state_json # <<>>
    /\ state_json[1].phase = phase
    /\ state_json[1].current_section_id = section_id

\* Section.is_saved, extended by the status the Reflection turn writes
Finished(status) == status \in { "saved", "complete" }

\* C1: from Planning with no section selected, driving turns through the
\* loop eventually brings every section row of a guide with more than one
\* section to the saved status, with current_section_id null again
C1_FullLoop ==
    (StateIs(PLANNING, None) /\ Cardinality(DOMAIN sections) > 1)
        ~> (/\ \A k \in DOMAIN sections : Finished(sections[k])
            /\ StateIs(PLANNING, None))

HasTitle(intake) == "title" \in DOMAIN intake /\ intake["title"] # ""

C3_SelectsLowestPending ==
    [][ (/\ last_request'.op = "planning"
         /\ LoadedState.current_section_id = None
         /\ get_next_pending_section(sections) # <<>>)
        => LET k == get_next_pending_section(sections)[1] IN
           state_json'[1].current_section_id = FormatSectionId(k[1], k[2]) ]_vars

\* C4: the control message in Planning, Execution or Reflection leaves the
\* persisted phase unchanged
C4_ForceCompleteNoOpOutsideIntake ==
    [][ (last_request'.op = "force" /\ StoredPhase \in { PLANNING, EXECUTION, REFLECTION })
        => state_json'[1].phase = StoredPhase ]_vars

\* C5: the control message in Intake, or with nothing persisted, persists
\* Planning with no section whatever IntakeData holds; IntakeData and the
\* intake conversation are untouched and the response is the fixed one
C5_ForceCompleteFromIntake ==
    [][ (last_request'.op = "force" /\ StoredPhase \in { "none", INTAKE })
        => (/\ state_json' = << [ session_id |-> SESSION, phase |-> PLANNING,
                                  current_section_id |-> None ] >>
            /\ intake_json' = intake_json
            /\ prev_question' = prev_question
            /\ response' = Metadata(PLANNING, None)) ]_vars

\* C5 witness: the control message arrived in Intake with no title collected
C5_Witness ==
    /\ last_request.op = "force" /\ last_request.phase \in { "none", INTAKE }
    /\ ~HasTitle(intake_json)
    /\ StateIs(PLANNING, None)

\* C6: in every persisted state the section id is null in Intake and non-null
\* in Execution and Reflection
C6_SectionIdMatchesPhase ==
    state_json # <<>> =>
        /\ state_json[1].phase = INTAKE => state_json[1].current_section_id = None
        /\ state_json[1].phase \in { EXECUTION, REFLECTION }
            => state_json[1].current_section_id # None

\* C6 witness: past a Reflection turn the machine is in Execution again
C6_Witness ==
    /\ StateIs(EXECUTION, Id00)
    /\ << 0, 0 >> \in DOMAIN sections /\ sections[<< 0, 0 >>] = "complete"

Rank(status) ==
    CASE status = "pending" -> 0
      [] status = "draft" -> 1
      [] OTHER -> 2

\* C7: no request moves a section row's status backwards
C7_StatusNeverRegresses ==
    [][ \A k \in DOMAIN sections \cap DOMAIN sections' :
            Rank(sections'[k]) >= Rank(sections[k]) ]_vars

\* C8: every section row's status is pending, drafted or saved
C8_StatusValues ==
    \A k \in DOMAIN sections : sections[k] \in { "pending", "draft", "saved" }

\* C9: no request moves a section row from pending directly to saved
C9_SavedOnlyFromDrafted ==
    [][ \A k \in DOMAIN sections \cap DOMAIN sections' :
            sections[k] = "pending" => ~Finished(sections'[k]) ]_vars

\* the (chapter, section) pairs of a guide, zero-based
ExpectedPairs(g) ==
    { k \in (0..Len(g) - 1) \X (0..9) : k[2] < g[k[1] + 1] }

RECURSIVE SumCounts(_)
SumCounts(g) == IF g = <<>> THEN 0 ELSE g[1] + SumCounts(Tail(g))

C11_ExecutionStoresDraft ==
    [][ last_request'.op = "execution"
        => LET cur == LoadedState.current_section_id
               p == ParseSectionId(cur)
           IN  /\ p # <<>> /\ p \in DOMAIN sections'
               /\ sections'[p] = "draft"
               /\ draft_html'[p] # <<>>
               /\ state_json'[1].phase = REFLECTION
               /\ state_json'[1].current_section_id = cur ]_vars

\* C12: after every Reflection turn the section row that current_section_id
\* named when the turn started has the saved status, and the persisted state
\* is Planning with no section
C12_ReflectionSavesSection ==
    [][ last_request'.op = "reflection"
        => LET p == ParseSectionId(LoadedState.current_section_id)
           IN  /\ p # <<>> /\ p \in DOMAIN sections'
               /\ sections'[p] = "saved"
               /\ state_json'[1].phase = PLANNING
               /\ state_json'[1].current_section_id = None ]_vars

\* C13: a Planning turn with a section selected stores the bullet list
\* extracted from the message under that section id (an empty list for a
\* message without bullet lines) and persists Execution with the same section
\* id, whatever the message
C13_BulletsStoredThenExecution ==
    [][ (last_request'.op = "planning" /\ LoadedState.current_section_id # None)
        => LET cur == LoadedState.current_section_id
               message == last_request'.message
           IN  /\ cur \in DOMAIN bullet_points'
               /\ bullet_points'[cur] = extract_bullet_points(message)
               /\ message = BulletMsg
                    => bullet_points'[cur] = << "scope", "method", "and data" >>
               /\ message \in { "", "My Report" } => bullet_points'[cur] = <<>>
               /\ state_json'[1].phase = EXECUTION
               /\ state_json'[1].current_section_id = cur ]_vars

\* C13 witness: the bullet message was sent in Planning with section 0.0
\* selected; its bullets are stored under 0.0 and the state is Execution
C13_Witness ==
    /\ last_request.op = "planning" /\ last_request.message = BulletMsg
    /\ Id00 \in DOMAIN bullet_points
    /\ bullet_points[Id00] = << "scope", "method", "and data" >>
    /\ StateIs(EXECUTION, Id00)

\* the collaborator signalled completion in the response of the last turn
SignalsCompletion(resp) == resp.complete_intake \/ resp.message_indicates_completion

\* C14 as stated: an Intake turn persists Planning with no section whenever
\* the collaborator signals completion or IntakeData has a title entry after
\* the turn
C14_SignalOrTitleEntryMovesToPlanning ==
    [][ (/\ last_request'.op = "intake"
         /\ SignalsCompletion(response') \/ "title" \in DOMAIN intake_json')
        => (/\ state_json'[1].phase = PLANNING
            /\ state_json'[1].current_section_id = None) ]_vars

\* C14 amended: an Intake turn persists Planning with no section whenever the
\* collaborator signals completion or IntakeData has a non-empty title after
\* the turn, and stays in Intake otherwise
C14_SignalOrTitleMovesToPlanning ==
    [][ last_request'.op = "intake"
        => (/\ state_json'[1].current_section_id = None
            /\ state_json'[1].phase =
                  IF SignalsCompletion(response') \/ HasTitle(intake_json')
                  THEN PLANNING ELSE INTAKE) ]_vars

\* C14 witness: the collaborator signalled completion in its message text
\* only, no title was collected, and the turn persisted Planning
C14_Witness ==
    /\ last_request.op = "intake"
    /\ response.message_indicates_completion /\ ~response.complete_intake
    /\ "title" \notin DOMAIN intake_json
    /\ StateIs(PLANNING, None)


\* a chat turn that neither lost its save nor a collaborator
PlainChatOps == { "chat", "force", "intake", "planning", "execution", "reflection" }

\* the stored state is missing, empty, lacks a key or names no phase
NoUsableState ==
    IF load_state_from_db = <<>> THEN TRUE
    ELSE IF from_dict_raises(load_state_from_db[1]) THEN TRUE
    ELSE load_state_from_db[1].phase \notin Phase

\* the stored state is one a fresh state can have been saved as
RanFromFreshState ==
    IF state_json = <<>> THEN FALSE
    ELSE IF from_dict_raises(state_json[1]) THEN FALSE
    ELSE /\ state_json[1].phase \in { INTAKE, PLANNING }
         /\ state_json[1].current_section_id = None

\* C15: a chat turn of an existing session whose stored state is missing or
\* malformed runs as from a fresh state: it is handled as Intake (or as the
\* force-complete command), answers with a phase, and leaves a well-formed
\* state without a section
C15_MalformedStateRunsFresh ==
    [][ ( /\ SessionExists
          /\ NoUsableState
          /\ last_request'.op \in PlainChatOps
          /\ last_request'.fault \in { "none", "state_unreadable", "unknown_phase" } )
        => ( /\ last_request'.op \in { "intake", "force" }
             /\ response'.phase \in Phase
             /\ RanFromFreshState' ) ]_vars

\* C16: a turn whose state save fails leaves the stored state as it was, so
\* the next turn loads the phase and section the failed turn started from
C16_FailedSaveKeepsStoredState ==
    [][ last_request'.fault = "save_failed"
        => ( /\ state_json' = state_json
             /\ StoredPhase' = StoredPhase ) ]_vars

C16_Witness ==
    /\ last_request.fault = "save_failed"
    /\ last_request.op = "execution"
    /\ response.phase = REFLECTION
    /\ StateIs(EXECUTION, Id00)

\* C17: a turn whose state save fails does not answer with the handler's
\* response for the new phase; the user is told about the failure
C17_FailedSaveIsReported ==
    [][ last_request'.fault = "save_failed" => response'.phase \notin Phase ]_vars

\* C18: a turn whose memory or generation collaborator fails still ends as a
\* turn: it answers with a phase, and that phase is the stored one
C18_CollaboratorFailureKeepsTurn ==
    [][ last_request'.fault = "collaborator_failed"
        => ( /\ response'.phase \in Phase
             /\ StoredPhase' = response'.phase ) ]_vars


\* the turns of an existing session that run a handler or the command
TurnOps == { "force", "intake", "planning", "execution", "reflection" }

\* the response metadata agrees with the stored state
MetadataMatchesStoredState ==
    /\ response.phase = StoredPhase
    /\ response.section_id # Absent
         => ( /\ state_json # <<>>
              /\ response.section_id = state_json[1].current_section_id )

\* C19: after every turn of an existing session, the force-complete message
\* included, the metadata's phase is the stored phase and the metadata's
\* section id, when there is one, is the stored current_section_id
C19_MetadataMatchesStoredState ==
    [][ last_request'.op \in TurnOps => MetadataMatchesStoredState' ]_vars


\* a guide with at least one chapter whose chapters all have a section
WellFormedGuide(g) ==
    /\ Len(g) >= 1
    /\ \A c \in 1..Len(g) : g[c] >= 1

\* C20: for every uploaded file and every outcome of the collaborators the
\* upload is not answered with an error, and the guide that is stored has at
\* least one chapter and no chapter without a section
C20_NormalizeReturnsWellFormedGuide ==
    [][ last_request'.op \in { "create", "create_rejected" }
        => ( /\ last_request'.op = "create"
             /\ guide_json' # <<>>
             /\ WellFormedGuide(guide_json'[1]) ) ]_vars


\* the call recorded is a call of fn
Called(fn) == fn_call.fn = fn

\* the uploaded file carries text for the rule-based parser
HasExtractedText(arg) ==
    \/ arg.file.kind = "text"
    \/ arg.file.kind \in { "pdf", "docx" } /\ arg.extraction_ok

\* C21: with the API key missing, or with the generation call failing, an
\* upload that carries text is answered with the rule-based parser's guide;
\* no error reaches the caller
C21_FallsThroughToRuleBasedParser ==
    ( Called("create_new_session") /\ HasExtractedText(fn_call.arg) )
        => ( /\ ~fn_result.raised
             /\ WellFormedGuide(fn_result.guide) )

\* C22: an upload that is the JSON text of a guide with chapters and sections
\* is answered with that guide, whether or not the API key is set
C22_CanonicalGuideRoundTrip ==
    ( /\ Called("create_new_session")
      /\ fn_call.arg.file.kind = "json_object"
      /\ WellFormedGuide(fn_call.arg.file.guide) )
        => ( /\ ~fn_result.raised
             /\ fn_result.guide = fn_call.arg.file.guide )


\* C23: when the generated response does not parse even after the clean-up,
\* the result of the extraction is what the partial extraction gives for
\* that response, and no error leaves the extraction
C23_SanitizerFailureGivesPartialExtraction ==
    ( Called("extract_full_guide") /\ sanitize_json(fn_call.arg).raised )
        => ( /\ ~fn_result.raised
             /\ fn_result.guide = extract_partial_json(fn_call.arg) )

C23_Witness ==
    /\ Called("extract_full_guide")
    /\ fn_call.arg = [ defect |-> "truncated", titles |-> << "Chapter 1", "Introduction" >> ]
    /\ fn_result.tier = "partial"
    /\ Len(fn_result.guide) = 1

\* C24: the partial extraction returns at least one chapter, every chapter
\* has exactly one section, and a text without a chapter heading gives
\* exactly the placeholder chapter with its placeholder section
C24_PartialExtractionNeverEmpty ==
    Called("extract_partial_json")
        => ( /\ Len(fn_result) >= 1
             /\ \A c \in 1..Len(fn_result) : Len(fn_result[c].sections) = 1
             /\ ( \A k \in 1..Len(fn_call.arg.titles) : ~IsChapterTitle(fn_call.arg.titles[k]) )
                    => fn_result = << PlaceholderChapter >> )

C24_Witness ==
    /\ Called("extract_partial_json")
    /\ fn_call.arg.titles = << "chapter 3", "Introduction" >>
    /\ fn_result = << PlaceholderChapter >>


\* the chapters the loop of the rule-based parser recognised in the lines
RecognisedChapters(lines) ==
    save_current_content(OutlineLoop(OutlineStart, lines, 0)).chapters

\* C25: the rule-based parser returns at least one chapter and every chapter
\* has at least one section; a chapter recognised without a section gets
\* exactly one placeholder section, and when no chapter is recognised the
\* result is exactly the default chapter with its one section
C25_OutlineHasChaptersAndSections ==
    Called("guide_structure")
        => LET recognised == RecognisedChapters(fn_call.arg) IN
           /\ Len(fn_result) >= 1
           /\ \A c \in 1..Len(fn_result) : Len(fn_result[c].sections) >= 1
           /\ \A c \in 1..Len(recognised) :
                recognised[c].sections = <<>>
                    => fn_result[c].sections = << ChapterNameSection(recognised[c]) >>
           /\ recognised = <<>> => fn_result = << DefaultChapter >>

C25_Witness ==
    /\ Called("guide_structure")
    /\ fn_call.arg = << "1. Introduction", "some content" >>
    /\ Len(fn_result) = 1
    /\ Len(fn_result[1].sections) = 1
    /\ fn_result[1].sections[1].title = "1."

\* the line is part of the requirements of a section or subsection
KeepsLine(chapters, line) ==
    \E c \in 1..Len(chapters) : \E k \in 1..Len(chapters[c].sections) :
        LET section == chapters[c].sections[k] IN
        \/ \E n \in 1..Len(section.requirements) : section.requirements[n] = line
        \/ \E j \in 1..Len(section.subsections) :
             \E n \in 1..Len(section.subsections[j].requirements) :
                section.subsections[j].requirements[n] = line

\* C26: for the lines chapter heading, content A, section heading, content B
\* the result is one chapter with the heading as title, whose only section
\* has the section heading as title and B as requirements, and A is kept in
\* the requirements of a section
C26_ContentBeforeSectionIsKept ==
    ( /\ Called("guide_structure")
      /\ fn_call.arg = << "1. Introduction", "some content", "1.1 Background",
                          "more content" >> )
        => ( /\ Len(fn_result) = 1
             /\ fn_result[1].title = "1. Introduction"
             /\ Len(fn_result[1].sections) = 1
             /\ fn_result[1].sections[1].title = "1.1 Background"
             /\ KeepsLine(fn_result, "more content")
             /\ KeepsLine(fn_result, "some content") )

\* the bullets are the lines picked in the order of the message: every
\* marked line gives its text without the marker, an unmarked line gives
\* either nothing or, when it is longer than three characters, itself
RECURSIVE PicksInOrder(_, _)
PicksInOrder(bullets, raws) ==
    IF raws = <<>> THEN bullets = <<>>
    ELSE LET raw == Head(raws) IN
         IF raw = "" THEN PicksInOrder(bullets, Tail(raws))
         ELSE IF Marker(raw) # ""
         THEN /\ bullets # <<>>
              /\ Head(bullets) = Captured(raw)
              /\ PicksInOrder(Tail(bullets), Tail(raws))
         ELSE IF PicksInOrder(bullets, Tail(raws)) THEN TRUE
         ELSE /\ LongerThanThree(raw)
              /\ bullets # <<>>
              /\ Head(bullets) = raw
              /\ PicksInOrder(Tail(bullets), Tail(raws))

\* C27: bullet extraction returns one bullet per marked line (dash, bullet
\* sign, asterisk, "N." or "N)") with the marker removed, together with
\* qualifying unmarked lines, in the order of the lines of the message
C27_BulletsFollowMessageOrder ==
    Called("extract_bullet_points") => PicksInOrder(fn_result, fn_call.arg)

\* the message of four lines "- ", "* ", "3) " and a plain line gave four
\* bullets
C27_Witness ==
    /\ Called("extract_bullet_points")
    /\ fn_call.arg = << "- point one", "* point two", "3) point four",
                        "plain continuation line" >>
    /\ fn_result = << "point one", "point two", "point four",
                      "plain continuation line" >>

\* C28: bullet extraction keeps every unmarked line longer than the
\* threshold as a bullet wherever it occurs, also before the first marked
\* line and in a message without a marked line
C28_EveryLongUnmarkedLineIsKept ==
    Called("extract_bullet_points") =>
        \A i \in DOMAIN fn_call.arg :
            (Marker(fn_call.arg[i]) = "" /\ LongerThanThree(fn_call.arg[i])) =>
                \E j \in DOMAIN fn_result : fn_result[j] = fn_call.arg[i]

\* C29: field inference on the prior question returns the field of an
\* explicit tag when the tag is known; when no known tag matches it returns
\* the first field whose keyword occurs in the question; it returns "notes"
\* only when neither a tag nor a keyword matches
C29_InferenceFallsBackToKeywords ==
    Called("determine_intake_field") =>
        LET q == fn_call.arg IN
        IF q.empty THEN fn_result = "notes"
        ELSE IF q.tag \in KnownTags THEN fn_result = tag_mapping(q.tag)
        ELSE IF q.keyword_field # "" THEN fn_result = q.keyword_field
        ELSE fn_result = "notes"

\* C30: across any sequence of turns the set of field names of the
\* session's intake_json never shrinks: a turn only adds fields or
\* overwrites values, and a turn in planning, execution or reflection
\* leaves intake_json unchanged
C30_IntakeDataOnlyGrows ==
    [][ SessionExists =>
            /\ DOMAIN intake_json \subseteq DOMAIN intake_json'
            /\ last_request'.op \in { "planning", "execution", "reflection" }
                   => intake_json' = intake_json ]_vars

\* two intake turns filled two fields, and a planning turn ran after them
C30_Witness ==
    /\ { "notes", "department" } \subseteq DOMAIN intake_json
    /\ last_request.op = "planning"

\* the id names a section of the guide: both indices are in range
NamesSection(g, id) ==
    /\ ParseSectionId(id) # <<>>
    /\ ParseSectionId(id)[1] < Len(g)
    /\ ParseSectionId(id)[2] < g[ParseSectionId(id)[1] + 1]

\* C31: for every guide and every section id (index out of range, missing
\* chapter, non-numeric or malformed string, absent id) the section lookup
\* returns a descriptor and never raises; on a failed lookup it is the
\* placeholder descriptor
C31_LookupNeverRaises ==
    Called("extract_section_from_guide") =>
        /\ ~fn_result.raised
        /\ ~NamesSection(fn_call.arg.guide, fn_call.arg.section_id)
               => fn_result.value = PlaceholderSection(fn_call.arg.section_id)

\* both requests in flight have been answered
BothAnswered == \A t \in Turns : in_flight.turns[t].pc = "done"

\* the responses a turn gets when it is run again on a state: the one it
\* got if it got one, else any the handler of that state's phase can get
ReplayResponses(turn, state) ==
    IF turn.llm # <<>> /\ state.phase = INTAKE THEN { turn.llm }
    ELSE TurnResponses(state, turn.message)

\* the stored states after the two turns run one after the other, first
\* turn t then turn u, from the rows as they were when the first request
\* arrived
SerialOutcomes(t, u) ==
    LET g == guide_json[1]
        first == in_flight.turns[t]
        second == in_flight.turns[u]
        d0 == in_flight.base[1]
        s0 == LoadedFrom(d0.state_json)
        After(d, turn, llm) ==
            process_chat_message(d, g, LoadedFrom(d.state_json), turn.message, llm).db
    IN  UNION { { After(After(d0, first, l1), second, l2).state_json :
                    l2 \in ReplayResponses(second,
                               LoadedFrom(After(d0, first, l1).state_json)) } :
                l1 \in ReplayResponses(first, s0) }

SessionUntouched(id) ==
    /\ tables'.rows[id].state_json = tables.rows[id].state_json
    /\ tables'.rows[id].intake_json = tables.rows[id].intake_json
    /\ \A key \in DOMAIN tables.sections :
            key[1] = id => /\ key \in DOMAIN tables'.sections
                            /\ tables'.sections[key] = tables.sections[key]
    /\ \A key \in DOMAIN tables'.sections :
            key[1] = id => key \in DOMAIN tables.sections

\* C33: under any interleaving of turns of different sessions, a turn for
\* session A leaves the persisted state, the intake data and the section
\* records of session B unchanged
C33_TurnLeavesOtherSessionsAlone ==
    [][ \A b \in SessionIds : tables'.last # b => SessionUntouched(b) ]_vars

\* session s1 drafted its section 0.0 in its last turn while session s2,
\* with the same guide, is past its own draft and keeps its own rows
C33_Witness ==
    /\ tables.last = "s1"
    /\ tables.rows["s1"].state_json # <<>>
    /\ tables.rows["s1"].state_json[1].phase = REFLECTION
    /\ tables.rows["s2"].state_json # <<>>
    /\ tables.rows["s2"].state_json[1].phase = PLANNING
    /\ tables.rows["s2"].state_json[1].current_section_id = None
    /\ << "s1", 0, 0 >> \in DOMAIN tables.sections
    /\ << "s2", 0, 0 >> \in DOMAIN tables.sections
    /\ tables.sections[<< "s1", 0, 0 >>] = "draft"
    /\ tables.sections[<< "s2", 0, 0 >>] = "complete"

\* C34: no chat turn in any phase, and no force-complete message, changes
\* the guide attached to the session
C34_TurnsKeepTheGuide ==
    [][ \A id \in SessionIds :
            tables.rows[id].guide_json # <<>>
                => tables'.rows[id].guide_json = tables.rows[id].guide_json ]_vars

\* a session with the guide of two chapters went through intake, planning,
\* execution and reflection, and still has that guide
C34_Witness ==
    /\ tables.last = "s1"
    /\ tables.rows["s1"].guide_json = << <<1, 2>> >>
    /\ << "s1", 0, 0 >> \in DOMAIN tables.sections
    /\ tables.sections[<< "s1", 0, 0 >>] = "complete"
    /\ tables.rows["s1"].state_json[1].phase = PLANNING

\* no section row of the session is pending
NonePending == \A k \in DOMAIN sections : sections[k] # "pending"

\* C35: when no section record of the session is pending, a planning turn
\* with no section selected does not select any section:
\* current_section_id stays null and no drafted or saved section is chosen
\* again
C35_NothingSelectedWhenNonePending ==
    [][ ( /\ last_request'.op = "planning"
          /\ LoadedState.current_section_id = None
          /\ NonePending )
        => state_json'[1].current_section_id = None ]_vars

\* the edges of the loop
LoopEdges ==
    { << INTAKE, INTAKE >>, << INTAKE, PLANNING >>, << PLANNING, PLANNING >>,
      << PLANNING, EXECUTION >>, << EXECUTION, REFLECTION >>,
      << REFLECTION, PLANNING >> }

\* C36: each turn runs exactly one phase handler, the one of the loaded
\* phase, and the persisted phase changes only along the edges intake to
\* intake or planning, planning to planning (section newly selected) or
\* execution, execution to reflection, reflection to planning; a control
\* message runs no handler and may leave the phase as it is
C36_PhaseFollowsLoopEdges ==
    [][ last_request'.op \in TurnOps =>
            LET p == LoadedState.phase
                q == state_json'[1].phase
            IN  IF last_request'.op = "force"
                THEN p = q \/ << p, q >> \in LoopEdges
                ELSE /\ last_request'.op = p
                     /\ << p, q >> \in LoopEdges
                     /\ (p = PLANNING /\ q = PLANNING)
                            => /\ LoadedState.current_section_id = None
                               /\ state_json'[1].current_section_id # None ]_vars

\* the phase of the stored state, "none" when the column holds no phase
PersistedPhase(stored) ==
    IF stored = <<>> THEN "none"
    ELSE IF "phase" \in DOMAIN stored[1] THEN stored[1].phase
    ELSE "none"

\* C37: once the persisted phase of a session is planning, execution or
\* reflection, no later turn persists phase intake, also not a turn in
\* which loading the persisted state fails
C37_NoTurnGoesBackToIntake ==
    [][ ( /\ PersistedPhase(state_json) \in { PLANNING, EXECUTION, REFLECTION }
          /\ last_request'.op \in PlainChatOps )
        => PersistedPhase(state_json') # INTAKE ]_vars

\* C38: a turn whose phase handler aborts with an exception leaves the
\* persisted state exactly as it was before the turn: the state is written
\* only after the handler returns, although the handler has already changed
\* its state object
C38_AbortedTurnKeepsStoredState ==
    [][ (last_request'.fault = "collaborator_failed" /\ response' = HTTP_500)
        => state_json' = state_json ]_vars

\* a planning turn selected section 0.0 on its state object, then the
\* generation call raised: the stored state is still planning with no
\* section
C38_Witness ==
    /\ last_request.fault = "collaborator_failed"
    /\ last_request.op = "planning"
    /\ response = HTTP_500
    /\ StateIs(PLANNING, None)

\* C39: an intake turn keeps the phase at intake when the collaborator's
\* response carries no completion signal (neither the flag of the metadata
\* nor a completion phrase in the text) and the intake data has no non-empty
\* title after the writes of the turn: the response names intake and the
\* stored phase is intake (or still absent when the save of a first turn
\* failed)
C39_IntakeStaysWithoutSignalOrTitle ==
    [][ ( /\ last_request'.op = "intake"
          /\ ~SignalsCompletion(response')
          /\ ~HasTitle(intake_json') )
        => /\ response'.phase = INTAKE
           /\ PersistedPhase(state_json') \in { INTAKE, "none" }
           /\ last_request'.fault # "save_failed"
                => PersistedPhase(state_json') = INTAKE ]_vars

\* an intake turn recorded an empty message under the title the collaborator
\* had asked for, the response gave no signal, and the stored phase is intake
C39_Witness ==
    /\ last_request.op = "intake"
    /\ last_request.fault = "none"
    /\ ~SignalsCompletion(response)
    /\ "title" \in DOMAIN intake_json
    /\ ~HasTitle(intake_json)
    /\ response.phase = INTAKE
    /\ StateIs(INTAKE, None)

====
